---- MODULE Spec2Model ----
(***************************************************************************)
(* Model of ggit's sqlite-backed reader/writer lock (src/ggit/locker.py).  *)
(*                                                                         *)
(* The lock record is the single row of table ggit_svn_cache in the file   *)
(* <root>/.lockfile.  Several lock objects, living in one or more OS       *)
(* processes, operate on that row.                                         *)
(*                                                                         *)
(* Transaction structure, as the code runs under Python's sqlite3 module   *)
(* with its default isolation level:                                       *)
(*   - _transaction() connects and runs _initialize_database(), whose      *)
(*     INSERT opens an implicit transaction that is committed when its     *)
(*     "with" block exits;                                                 *)
(*   - _select_data() is a bare SELECT: the module opens no transaction    *)
(*     for it (con.__enter__ does nothing), so it runs in autocommit mode  *)
(*     and its shared lock is dropped when the statement ends;             *)
(*   - _write_data() is an UPDATE: the module issues an implicit BEGIN in  *)
(*     front of it and SqliteTransaction.__exit__ commits it.              *)
(* Hence the read and the write of one lock operation are two separate    *)
(* atomic steps, Begin and Write, and steps of other processes may fall    *)
(* between them.  Begin takes the initialization and the SELECT together:  *)
(* initialization changes the table only while it has no row, and every    *)
(* caller would insert the same row.                                       *)
(*                                                                         *)
(* The second part models the checkout cache built on the lock            *)
(* (src/ggit/_svn.py): SvnCache.create run by several processes on the     *)
(* local and the external tier, one step per lock transaction and per      *)
(* svn/cp command.                                                         *)
(*                                                                         *)
(* Strings are modelled as sequences of holder ids: '-<pid>-' is one       *)
(* element, '' is <<>>.  The dashes make substring search coincide with    *)
(* membership, and str.replace(id, '') with removing every occurrence.     *)
(***************************************************************************)
EXTENDS Integers, Sequences, FiniteSets, TLC

\* ---------------------------------------------------------------- bounds
NumObjs == 3
MaxTid == 3
NumTags == 2
MaxRev == 10
MaxCalls == 2

\* ------------------------------------------------------- lock objects
\* A lock object slot: one SvnCacheReaderLock and the SvnCacheWriterLock
\* (constructed directly, or returned by upgrade()) on the same root in
\* the same process.
Objs == 1..NumObjs

\* os.getpid() of the process that owns the object: a process has up to
\* two lock objects on the lock file (objects 1 and 2 live in process 1,
\* objects 3 and 4 in process 2, ...).
getpid(o) == (o + 1) \div 2

\* SvnCacheLock._lockid: '-%s-' % os.getpid()
lockid(o) == getpid(o)

Methods == {"rlock", "runlock", "upgrade", "wlock", "wunlock"}

\* ------------------------------------------------------ string helpers
\* Python: id in s
In(id, s) == \E i \in DOMAIN s : s[i] = id

\* Python: s.replace(id, '')
Replace(s, id) == SelectSeq(s, LAMBDA x : x # id)

\* ------------------------------------------------------------ the row
\* The row inserted by _initialize_database: SELECT 0, "", "", "0"
InitialRow == [readers |-> <<>>, writer |-> <<>>, tid |-> 0]

\* CREATE TABLE IF NOT EXISTS + INSERT ... WHERE NOT EXISTS (id = 0)
\* Variant: initialization that rewrites the row on every call.
initialize_database_Resets(table) == <<InitialRow>>

initialize_database(table) == IF table = <<>> THEN <<InitialRow>> ELSE table

\* SELECT * FROM ggit_svn_cache; fetchone()
select_data(table) == table[1]

\* data['tid'] += 1; UPDATE ... SET readers, writer, tid WHERE id = 0
write_data(data) == <<[data EXCEPT !.tid = data.tid + 1]>>

\* ----------------------------------- the methods, between read and write
\* Each *_check is the outcome of the method's raise/assert statements on
\* the row it read, in program order; each *_data is the dict it then
\* hands to _write_data.

\* Variant: lock() without the assertion that its id is not yet a reader.
ReaderLock_lock_check_NoAssert(data, id) ==
    IF data.writer # <<>> THEN "LockAcquireException" ELSE "ok"

ReaderLock_lock_check(data, id) ==
    IF data.writer # <<>> THEN "LockAcquireException"
    ELSE IF In(id, data.readers) THEN "AssertionError"
    ELSE "ok"

\* Variant: lock() that writes readers = own id instead of appending it.
ReaderLock_lock_data_Overwrite(data, id) ==
    [data EXCEPT !.readers = <<id>>]

ReaderLock_lock_data(data, id) ==
    [data EXCEPT !.readers = data.readers \o <<id>>]

\* Variant: unlock() without its assertions.
ReaderLock_unlock_check_NoAssert(data, id) == "ok"

ReaderLock_unlock_check(data, id) ==
    IF ~ In(id, data.readers) THEN "AssertionError"
    ELSE IF In(id, data.writer) THEN "AssertionError"
    ELSE "ok"

\* Variant: unlock() that writes readers = '' instead of removing its id.
ReaderLock_unlock_data_ClearsAll(data, id) ==
    [data EXCEPT !.readers = <<>>]

ReaderLock_unlock_data(data, id) ==
    [data EXCEPT !.readers = Replace(data.readers, id)]

\* Variant: upgrade() without the test of the remaining readers.
ReaderLock_upgrade_check_IgnoresOthers(data, id) ==
    IF data.writer # <<>> THEN "LockAcquireException"
    ELSE IF ~ In(id, data.readers) THEN "AssertionError"
    ELSE "ok"

ReaderLock_upgrade_check(data, id) ==
    IF data.writer # <<>> THEN "LockAcquireException"
    ELSE IF ~ In(id, data.readers) THEN "AssertionError"
    ELSE IF Replace(data.readers, id) # <<>> THEN "LockAcquireException"
    ELSE "ok"

ReaderLock_upgrade_data(data, id) ==
    [data EXCEPT !.readers = Replace(data.readers, id), !.writer = <<id>>]

\* Variant: WriterLock.lock() without the test of writer.
WriterLock_lock_check_IgnoresWriter(data, id) ==
    IF data.readers # <<>> THEN "LockAcquireException"
    ELSE "ok"

\* Variant: WriterLock.lock() without the test of readers.
WriterLock_lock_check_IgnoresReaders(data, id) ==
    IF data.writer # <<>> THEN "LockAcquireException"
    ELSE "ok"

WriterLock_lock_check(data, id) ==
    IF data.writer # <<>> THEN "LockAcquireException"
    ELSE IF data.readers # <<>> THEN "LockAcquireException"
    ELSE "ok"

WriterLock_lock_data(data, id) ==
    [data EXCEPT !.writer = <<id>>]

WriterLock_unlock_check(data, id) ==
    IF data.writer # <<id>> THEN "AssertionError"
    ELSE "ok"

\* Variant: WriterLock.unlock() that writes the row back as read.
WriterLock_unlock_data_Keeps(data, id) ==
    data

WriterLock_unlock_data(data, id) ==
    [data EXCEPT !.writer = <<>>]

Check(m, data, id) ==
    CASE m = "rlock"   -> ReaderLock_lock_check(data, id)
      [] m = "runlock" -> ReaderLock_unlock_check(data, id)
      [] m = "upgrade" -> ReaderLock_upgrade_check(data, id)
      [] m = "wlock"   -> WriterLock_lock_check(data, id)
      [] m = "wunlock" -> WriterLock_unlock_check(data, id)

NewData(m, data, id) ==
    CASE m = "rlock"   -> ReaderLock_lock_data(data, id)
      [] m = "runlock" -> ReaderLock_unlock_data(data, id)
      [] m = "upgrade" -> ReaderLock_upgrade_data(data, id)
      [] m = "wlock"   -> WriterLock_lock_data(data, id)
      [] m = "wunlock" -> WriterLock_unlock_data(data, id)

\* What the caller holds once method m has returned normally.
HeldAfter(m) ==
    CASE m = "rlock"   -> "reader"
      [] m = "runlock" -> "none"
      [] m = "upgrade" -> "writer"
      [] m = "wlock"   -> "writer"
      [] m = "wunlock" -> "none"

\* The calls a caller that keeps the lock discipline makes: it acquires
\* through a fresh lock object when it holds nothing, and releases or
\* upgrades what it holds.
Allowed(h) ==
    CASE h = "none"   -> {"rlock", "wlock"}
      [] h = "reader" -> {"runlock", "upgrade"}
      [] h = "writer" -> {"wunlock"}

\* ---------------------------------------------------------- cache data
\* The processes that run SvnCache.create: the processes of the lock
\* objects.  A lock object made in process p has _lockid p.
Procs == {getpid(o) : o \in Objs}

\* The cache roots: SvnCache.local_dir and SvnCache.extern_dir.
Tiers == {"local", "extern"}

\* SvnCacheTag objects, told apart by their hash.
Tags == 1..NumTags

\* Revision numbers of the repository; svn checkout without -r fetches
\* the latest one.
Revs == 9..MaxRev
HeadRev == MaxRev

\* SvnCacheLock.lockfile of a lock made by SvnCacheEntry.rlock()/wlock():
\* os.path.join(self.root, '.lockfile'), where root is the cache root.
lockfile(root, tag) == <<root, ".lockfile">>

\* SvnCache._cache_path: os.path.join(dir_, tag.hash)
cache_path(root, tag) == <<root, tag>>

LockFiles == {lockfile(t, g) : t \in Tiers, g \in Tags}

\* A revision as a Python string: svn_info() returns the text after
\* "Revision:" unstripped, ' 10' (kind "svn"); a caller may pass '10'
\* (kind "digits").
PyRevs == [k : {"svn", "digits"}, n : Revs]

RECURSIVE Digits(_)
Digits(n) == IF n < 10 THEN <<48 + n>> ELSE Digits(n \div 10) \o <<48 + (n % 10)>>

\* The characters of the string, as code points.
Chars(v) == IF v.k = "svn" THEN <<32>> \o Digits(v.n) ELSE Digits(v.n)

\* Python: a < b on strings (lexicographic by code point).
RECURSIVE StrLt(_, _)
StrLt(a, b) ==
    IF b = <<>> THEN FALSE
    ELSE IF a = <<>> THEN TRUE
    ELSE IF Head(a) # Head(b) THEN Head(a) < Head(b)
    ELSE StrLt(Tail(a), Tail(b))

\* ecache.revision < rev
RevLt(a, b) == StrLt(Chars(a), Chars(b))

\* rev != lcache.revision
RevNe(a, b) == Chars(a) # Chars(b)

\* svn_info(path)['revision'] of a directory at revision n.
svn_info(n) == [k |-> "svn", n |-> n]

\* No directory at a cache path.
Absent == 0

\* Variant: an entry is returned whether or not the path exists.
get_entry_Always(d, root, tag) == <<svn_info(d[cache_path(root, tag)])>>

\* SvnCache._get_entry: None (<<>>) unless the path exists; otherwise an
\* entry whose revision is what svn info reports.
get_entry(d, root, tag) ==
    IF d[cache_path(root, tag)] = Absent THEN <<>>
    ELSE <<svn_info(d[cache_path(root, tag)])>>

CachePaths == {cache_path(t, g) : t \in Tiers, g \in Tags}

\* The depth of a checkout as svn info reports it: 'infinity' when the
\* output has no "Depth:" line, else the text of that line.
Depths == {"infinity", "empty"}

\* cp -ra src dst that runs to its end: the destination tree is complete
\* exactly if the source tree is.
cp_partial(S, src, dst) == IF src \in S THEN S \cup {dst} ELSE S \ {dst}

\* A working directory that no switch has touched: no .svn in it.
NoWc ==
    [svn |-> "absent", entries |-> {}, rev |-> Absent, depth |-> "none",
     steps |-> <<>>]

\* rev=None of the high-level switch_checkout.
NoRev == [k |-> "None", n |-> Absent]

\* The frame of a process that is not inside create.
IdleFrame ==
    [pc |-> "idle", tag |-> 1, rev |-> svn_info(HeadRev), lcache |-> <<>>,
     ecache |-> <<>>, new |-> FALSE, data |-> InitialRow, exc |-> "none",
     fetches |-> 0, res |-> "none", calls |-> 0, again |-> FALSE,
     wheld |-> {}, caller |-> "none", srev |-> NoRev, cache |-> <<>>]

\* ------------------------------------------------------------ git clone
\* Two of REMOTE_TYPES, the protocol prefixes url_to_svn_cache removes.
Protocols == {"http://", "svn://"}

\* What follows the protocol in an svn url: host and branch path.
UrlPaths == {"rtosvc/trunk", "rtosvc/ap/trunk"}

\* The svn urls: of a remote's fetch, and of a git-svn-id line.
Urls == [proto : Protocols, rest : UrlPaths]

\* No url: a commit without a git-svn-id line, a path that does not
\* exist, find_entry's None.
NoUrl == [proto |-> "", rest |-> ""]

\* The refs of the clone.
Refs == {"origin/master", "origin/svn/aptrunk"}

\* git log <ref>, newest commit first: per commit the url of its
\* git-svn-id line, or NoUrl.
Logs == {<<a, b>> : a, b \in Urls \cup {NoUrl}}

\* GGitConfig.url_to_svn_cache: the url without its protocol, under
\* .git/ggit/svn.
url_to_svn_cache(url) == url.rest

\* GitSvnLogEntry.find_entry: the first git-svn-id line of the log.
RECURSIVE find_entry(_)
find_entry(log) ==
    IF log = <<>> THEN NoUrl
    ELSE IF Head(log) # NoUrl THEN Head(log)
    ELSE find_entry(Tail(log))

\* Variant: the log of the current HEAD is read, whatever the hashish.
latest_svn_commit_OfHead(r, hashish) == find_entry(r.logs[r.head])

\* Git.latest_svn_commit(hashish)
latest_svn_commit(r, hashish) == find_entry(r.logs[hashish])

\* GGit.setup_empty_svn: for each url of the remotes in turn, the path
\* of its cache is removed and filled with the .svn of an empty checkout
\* of the url.
RECURSIVE setup_empty_svn(_, _)
setup_empty_svn(svn, urls) ==
    IF urls = <<>> THEN svn
    ELSE setup_empty_svn(
             [svn EXCEPT ![url_to_svn_cache(Head(urls))] = Head(urls)],
             Tail(urls))

\* GGit.switch_svn(dot_git, url, rev) in the top-level directory: the
\* old .svn is removed, and the new one links the entries of the cache
\* of url, whose listing fails when the cache does not exist.
switch_svn(r, url) ==
    LET svn_path == url_to_svn_cache(url)
    IN IF r.svn[svn_path] = NoUrl
       THEN [r EXCEPT !.wc_url = NoUrl, !.res = "OSError"]
       ELSE [r EXCEPT !.wc_url = r.svn[svn_path], !.res = "ok"]

\* No clone.
NoRepo ==
    [cloned |-> FALSE, config |-> <<>>,
     svn |-> [u \in UrlPaths |-> NoUrl],
     logs |-> [h \in Refs |-> <<NoUrl, NoUrl>>],
     head |-> "origin/master", wc_url |-> NoUrl, dirty |-> FALSE,
     op |-> "none", res |-> "none"]

\* -------------------------------------------------------------- state
VARIABLES
    table,     \* rows of ggit_svn_cache in the lock file: <<>> or <<row>>
    pc,        \* per object: "idle", or "write" between SELECT and UPDATE
    op,        \* per object: the method called last (running or returned)
    data,      \* per object: the dict read by _select_data, as modified
    result,    \* per object: how the last call ended
    held,      \* per object: what its caller holds by the calls' returns
    upgraded,  \* per object: SvnCacheReaderLock._upgraded
    extern_dir, \* SvnCache.extern_dir is not None
    disk,      \* per cache path: Absent, or the revision of the checkout
    locks,     \* per lock file: rows of its table ggit_svn_cache
    proc,      \* per process: its call of SvnCache.create
    partial,   \* the cache paths whose directory tree is half-written
    depth,     \* per cache path: the depth svn info reports for it
    wc,        \* per process: the working directory it switches
    repo       \* a git clone: its ggit configuration, refs and .svn

lvars == <<table, pc, op, data, result, held, upgraded>>
cvars == <<extern_dir, disk, locks, proc, partial, depth, wc>>
vars == <<table, pc, op, data, result, held, upgraded,
          extern_dir, disk, locks, proc, partial, depth, wc, repo>>

Init ==
    /\ table = <<>>
    /\ pc = [o \in Objs |-> "idle"]
    /\ op = [o \in Objs |-> "none"]
    /\ data = [o \in Objs |-> InitialRow]
    /\ result = [o \in Objs |-> "none"]
    /\ held = [o \in Objs |-> "none"]
    /\ upgraded = [o \in Objs |-> FALSE]
    /\ extern_dir = FALSE
    /\ disk = [c \in CachePaths |-> Absent]
    /\ locks = [f \in LockFiles |-> <<>>]
    /\ proc = [p \in Procs |-> IdleFrame]
    /\ partial = {}
    /\ depth = [c \in CachePaths |-> "infinity"]
    /\ wc = [p \in Procs |-> NoWc]
    /\ repo = NoRepo

\* Method m of object o up to its UPDATE: _transaction() connects and
\* initializes the database, _select_data reads the row, and the method's
\* checks run on it.  A raise leaves the "with" block with no UPDATE
\* executed.  A process is single-threaded, so its objects run one call at
\* a time.  lock() is called on a newly constructed lock object, whose
\* _upgraded is False.
Begin(o, m) ==
    /\ pc[o] = "idle"
    /\ \A g \in Objs : getpid(g) = getpid(o) => pc[g] = "idle"
    /\ m \in Allowed(held[o])
    /\ select_data(initialize_database(table)).tid < MaxTid
    /\ table' = initialize_database(table)
    /\ op' = [op EXCEPT ![o] = m]
    /\ upgraded' = [upgraded EXCEPT
                       ![o] = upgraded[o] /\ m \notin {"rlock", "wlock"}]
    /\ LET d == select_data(table')
           r == Check(m, d, lockid(o))
       IN IF r = "ok"
          THEN /\ data' = [data EXCEPT ![o] = NewData(m, d, lockid(o))]
               /\ pc' = [pc EXCEPT ![o] = "write"]
               /\ result' = [result EXCEPT ![o] = "none"]
          ELSE /\ pc' = [pc EXCEPT ![o] = "idle"]
               /\ result' = [result EXCEPT ![o] = r]
               /\ UNCHANGED data
    /\ UNCHANGED held
    /\ UNCHANGED <<cvars, repo>>

\* _write_data, the commit at the end of the "with" block, and the return.
Write(o) ==
    /\ pc[o] = "write"
    /\ table' = write_data(data[o])
    /\ pc' = [pc EXCEPT ![o] = "idle"]
    /\ result' = [result EXCEPT ![o] = "ok"]
    /\ held' = [held EXCEPT ![o] = HeldAfter(op[o])]
    /\ upgraded' = [upgraded EXCEPT ![o] = upgraded[o] \/ op[o] = "upgrade"]
    /\ data' = [data EXCEPT ![o] = InitialRow]
    /\ UNCHANGED op
    /\ UNCHANGED <<cvars, repo>>

Next ==
    \/ \E o \in Objs, m \in Methods : Begin(o, m)
    \/ \E o \in Objs : Write(o)

Spec == Init /\ [][Next]_vars

\* ------------------------------------------------------ SvnCache.create
\* SvnCache.get_local_entry(tag)
get_local_entry(g) == get_entry(disk, "local", g)

\* SvnCache.get_extern_entry(tag): None without an external root.
get_extern_entry(g) ==
    IF extern_dir THEN get_entry(disk, "extern", g) ELSE <<>>

\* Variant: a "with" block whose __exit__ swallows the exception.
Raised_Swallows(f, r, handler) ==
    IF handler = "idle"
    THEN [f EXCEPT !.pc = "idle", !.res = r, !.exc = "none", !.new = FALSE,
                   !.lcache = <<>>, !.ecache = <<>>, !.wheld = {}]
    ELSE [f EXCEPT !.pc = handler]

\* An exception r raised in a frame: inside a "with" block it is kept
\* while the block's __exit__ (handler) unlocks; outside it ends the call.
Raised(f, r, handler) ==
    IF handler = "idle"
    THEN [f EXCEPT !.pc = "idle", !.res = r, !.exc = "none", !.new = FALSE,
                   !.lcache = <<>>, !.ecache = <<>>, !.wheld = {}]
    ELSE [f EXCEPT !.pc = handler, !.exc = r]

\* The frame at the next statement; a call that ends re-raises the
\* exception kept by the "with" block, or returns.
Goto(f, next) ==
    IF next = "idle"
    THEN [f EXCEPT !.pc = IF f.caller = "switch_checkout" /\ f.exc = "none"
                          THEN "h_lookup" ELSE "idle",
                   !.exc = "none", !.data = InitialRow,
                   !.new = FALSE, !.lcache = <<>>, !.ecache = <<>>,
                   !.wheld = {},
                   !.res = IF f.exc # "none" THEN f.exc ELSE "returned"]
    ELSE [f EXCEPT !.pc = next, !.data = InitialRow]

\* The roots whose writer lock the call holds by its lock calls' returns,
\* after method m on the lock of root t has returned.
WHeldAfter(m, W, t) ==
    IF HeldAfter(m) = "writer" THEN W \cup {t} ELSE W \ {t}

\* Method m of a lock on root t up to its UPDATE, at statement here.
lock_read(p, t, m, okpc, handler) ==
    /\ LET f == lockfile(t, proc[p].tag)
           tb == initialize_database(locks[f])
           d == select_data(tb)
           r == Check(m, d, p)
       IN /\ locks' = [locks EXCEPT ![f] = tb]
          /\ proc' = [proc EXCEPT ![p] =
                        IF r = "ok"
                        THEN [proc[p] EXCEPT !.pc = okpc, !.data = NewData(m, d, p)]
                        ELSE Raised(proc[p], r, handler)]
    /\ UNCHANGED <<extern_dir, disk, partial, depth, wc>>
    /\ UNCHANGED <<lvars, repo>>

\* The UPDATE and commit of the lock method begun at lock_read.
lock_write(p, t, m, next) ==
    /\ locks' = [locks EXCEPT ![lockfile(t, proc[p].tag)] = write_data(proc[p].data)]
    /\ proc' = [proc EXCEPT ![p] =
                  Goto([proc[p] EXCEPT !.wheld = WHeldAfter(m, proc[p].wheld, t)], next)]
    /\ UNCHANGED <<extern_dir, disk, partial, depth, wc>>
    /\ UNCHANGED <<lvars, repo>>

\* After the external entry has been refreshed or found fresh: return if
\* there is a local entry, else copy the external entry to the local root.
AfterRefresh(f) == IF f.lcache # <<>> THEN "e_exit" ELSE "c_wlock"

\* Variant: the copy to the external root without its writer lock.
AfterCheckout_NoLock == IF extern_dir THEN "x_cp" ELSE "n_exit"

\* After the first-time checkout: return without an external root, else
\* copy the local entry to the external root.
AfterCheckout == IF extern_dir THEN "x_wlock" ELSE "n_exit"

\* The number of create calls made so far by the processes in S.
RECURSIVE Calls(_)
Calls(S) ==
    IF S = {} THEN 0
    ELSE LET p == CHOOSE q \in S : TRUE IN proc[p].calls + Calls(S \ {p})

\* The frame of create(tag, rev) after both lookups and the choice of the
\* branch, called from frame f.
create_frame(f, g, r) ==
    LET lc == get_local_entry(g)
        ec == get_extern_entry(g)
        new == ec = <<>> /\ lc = <<>>
    IN [pc |-> IF ec # <<>> THEN "e_rlock" ELSE "n_wlock",
        tag |-> g, rev |-> r,
        lcache |-> IF new THEN <<r>> ELSE lc,
        ecache |-> ec, new |-> new, data |-> InitialRow,
        exc |-> "none", fetches |-> 0, res |-> "none",
        calls |-> f.calls + 1,
        again |-> /\ f.calls > 0
                  /\ f.res = "returned"
                  /\ f.tag = g
                  /\ f.rev = r,
        wheld |-> {}, caller |-> f.caller, srev |-> f.srev, cache |-> <<>>]

\* create(tag, rev) is called: both lookups, and the choice of the branch.
create(p, g, r) ==
    /\ proc[p].pc = "idle"
    /\ Calls(Procs) < MaxCalls
    /\ proc' = [proc EXCEPT ![p] = create_frame(proc[p], g, r)]
    /\ UNCHANGED <<extern_dir, disk, locks, partial, depth, wc>>
    /\ UNCHANGED <<lvars, repo>>

\* with ecache.rlock() as lock: __enter__
e_rlock_read(p) ==
    /\ proc[p].pc = "e_rlock"
    /\ lock_read(p, "extern", "rlock", "e_rlock_w", "idle")

e_rlock_write(p) ==
    /\ proc[p].pc = "e_rlock_w"
    /\ lock_write(p, "extern", "rlock",
                  IF RevLt(proc[p].ecache[1], proc[p].rev)
                  THEN "e_upgrade" ELSE AfterRefresh(proc[p]))

\* lock.upgrade()
e_upgrade_read(p) ==
    /\ proc[p].pc = "e_upgrade"
    /\ lock_read(p, "extern", "upgrade", "e_upgrade_w", "e_exit")

e_upgrade_write(p) ==
    /\ proc[p].pc = "e_upgrade_w"
    /\ lock_write(p, "extern", "upgrade", "e_update")

\* ecache.update(rev): svn update -r rev of the external checkout.
e_update(p) ==
    /\ proc[p].pc = "e_update"
    /\ disk' = [disk EXCEPT ![cache_path("extern", proc[p].tag)] = proc[p].rev.n]
    /\ proc' = [proc EXCEPT ![p] =
                  [proc[p] EXCEPT !.pc = AfterRefresh(proc[p]),
                                  !.fetches = proc[p].fetches + 1]]
    /\ depth' = [depth EXCEPT ![cache_path("extern", proc[p].tag)] = "infinity"]
    /\ UNCHANGED partial
    /\ UNCHANGED <<extern_dir, locks, wc>>
    /\ UNCHANGED <<lvars, repo>>

\* ecache.copy_to(self.local_dir): with new_entry.wlock(): __enter__
c_wlock_read(p) ==
    /\ proc[p].pc = "c_wlock"
    /\ lock_read(p, "local", "wlock", "c_wlock_w", "e_exit")

c_wlock_write(p) ==
    /\ proc[p].pc = "c_wlock_w"
    /\ lock_write(p, "local", "wlock", "c_cp")

\* cp -ra of the external checkout into the local root; the new entry
\* carries the revision attribute of the entry it was copied from.
c_cp(p) ==
    /\ proc[p].pc = "c_cp"
    /\ disk' = [disk EXCEPT ![cache_path("local", proc[p].tag)] =
                               disk[cache_path("extern", proc[p].tag)]]
    /\ proc' = [proc EXCEPT ![p] =
                  [proc[p] EXCEPT !.pc = "c_wunlock", !.lcache = proc[p].ecache]]
    /\ depth' = [depth EXCEPT ![cache_path("local", proc[p].tag)] =
                                 depth[cache_path("extern", proc[p].tag)]]
    /\ partial' = cp_partial(partial, cache_path("extern", proc[p].tag),
                             cache_path("local", proc[p].tag))
    /\ UNCHANGED <<extern_dir, locks, wc>>
    /\ UNCHANGED <<lvars, repo>>

\* copy_to: with new_entry.wlock(): __exit__
c_wunlock_read(p) ==
    /\ proc[p].pc = "c_wunlock"
    /\ lock_read(p, "local", "wunlock", "c_wunlock_w", "e_exit")

c_wunlock_write(p) ==
    /\ proc[p].pc = "c_wunlock_w"
    /\ lock_write(p, "local", "wunlock",
                  IF proc[p].exc # "none" THEN "e_exit"
                  ELSE IF RevNe(proc[p].rev, proc[p].lcache[1])
                       THEN "l_update" ELSE "e_exit")

\* lcache.update(rev): svn update -r rev of the local copy.
l_update(p) ==
    /\ proc[p].pc = "l_update"
    /\ disk' = [disk EXCEPT ![cache_path("local", proc[p].tag)] = proc[p].rev.n]
    /\ proc' = [proc EXCEPT ![p] =
                  [proc[p] EXCEPT !.pc = "e_exit",
                                  !.fetches = proc[p].fetches + 1]]
    /\ depth' = [depth EXCEPT ![cache_path("local", proc[p].tag)] = "infinity"]
    /\ UNCHANGED partial
    /\ UNCHANGED <<extern_dir, locks, wc>>
    /\ UNCHANGED <<lvars, repo>>

\* with ecache.rlock() as lock: __exit__, which is SvnCacheReaderLock.unlock
e_exit_read(p) ==
    /\ proc[p].pc = "e_exit"
    /\ lock_read(p, "extern", "runlock", "e_exit_w", "idle")

e_exit_write(p) ==
    /\ proc[p].pc = "e_exit_w"
    /\ lock_write(p, "extern", "runlock", "idle")

\* with lcache.wlock(): __enter__
n_wlock_read(p) ==
    /\ proc[p].pc = "n_wlock"
    /\ lock_read(p, "local", "wlock", "n_wlock_w", "idle")

n_wlock_write(p) ==
    /\ proc[p].pc = "n_wlock_w"
    /\ lock_write(p, "local", "wlock",
                  IF proc[p].new THEN "n_checkout" ELSE AfterCheckout)

\* lcache.checkout(): svn checkout --depth=infinity url path, which
\* fetches the latest revision.
n_checkout(p) ==
    /\ proc[p].pc = "n_checkout"
    /\ disk' = [disk EXCEPT ![cache_path("local", proc[p].tag)] = HeadRev]
    /\ proc' = [proc EXCEPT ![p] =
                  [proc[p] EXCEPT !.pc = AfterCheckout,
                                  !.fetches = proc[p].fetches + 1]]
    /\ depth' = [depth EXCEPT ![cache_path("local", proc[p].tag)] = "infinity"]
    /\ partial' = partial \ {cache_path("local", proc[p].tag)}
    /\ UNCHANGED <<extern_dir, locks, wc>>
    /\ UNCHANGED <<lvars, repo>>

\* lcache.copy_to(self.extern_dir): with new_entry.wlock(): __enter__
x_wlock_read(p) ==
    /\ proc[p].pc = "x_wlock"
    /\ lock_read(p, "extern", "wlock", "x_wlock_w", "n_exit")

x_wlock_write(p) ==
    /\ proc[p].pc = "x_wlock_w"
    /\ lock_write(p, "extern", "wlock", "x_cp")

\* Variant: nothing is copied to the external root.
x_cp_Skips(p) ==
    /\ proc[p].pc = "x_cp"
    /\ proc' = [proc EXCEPT ![p].pc = "x_wunlock"]
    /\ UNCHANGED <<extern_dir, disk, locks, partial, depth, wc>>
    /\ UNCHANGED <<lvars, repo>>

\* cp -ra of the local checkout into the external root.
x_cp(p) ==
    /\ proc[p].pc = "x_cp"
    /\ disk' = [disk EXCEPT ![cache_path("extern", proc[p].tag)] =
                               disk[cache_path("local", proc[p].tag)]]
    /\ proc' = [proc EXCEPT ![p].pc = "x_wunlock"]
    /\ depth' = [depth EXCEPT ![cache_path("extern", proc[p].tag)] =
                                 depth[cache_path("local", proc[p].tag)]]
    /\ partial' = cp_partial(partial, cache_path("local", proc[p].tag),
                             cache_path("extern", proc[p].tag))
    /\ UNCHANGED <<extern_dir, locks, wc>>
    /\ UNCHANGED <<lvars, repo>>

\* copy_to: with new_entry.wlock(): __exit__
x_wunlock_read(p) ==
    /\ proc[p].pc = "x_wunlock"
    /\ lock_read(p, "extern", "wunlock", "x_wunlock_w", "n_exit")

x_wunlock_write(p) ==
    /\ proc[p].pc = "x_wunlock_w"
    /\ lock_write(p, "extern", "wunlock", "n_exit")

\* with lcache.wlock(): __exit__
n_exit_read(p) ==
    /\ proc[p].pc = "n_exit"
    /\ lock_read(p, "local", "wunlock", "n_exit_w", "idle")

n_exit_write(p) ==
    /\ proc[p].pc = "n_exit_w"
    /\ lock_write(p, "local", "wunlock", "idle")

\* The cache roots on first use: an empty local root and, when there is an
\* external root, whatever checkouts other hosts left in it; no lock file yet.
InitCache ==
    /\ table = <<>>
    /\ pc = [o \in Objs |-> "idle"]
    /\ op = [o \in Objs |-> "none"]
    /\ data = [o \in Objs |-> InitialRow]
    /\ result = [o \in Objs |-> "none"]
    /\ held = [o \in Objs |-> "none"]
    /\ upgraded = [o \in Objs |-> FALSE]
    /\ extern_dir \in BOOLEAN
    /\ disk \in [CachePaths -> {Absent} \cup Revs]
    /\ \A g \in Tags : disk[cache_path("local", g)] = Absent
    /\ \A g \in Tags : ~ extern_dir => disk[cache_path("extern", g)] = Absent
    /\ locks = [f \in LockFiles |-> <<>>]
    /\ proc = [p \in Procs |-> IdleFrame]
    /\ partial = {}
    /\ depth = [c \in CachePaths |-> "infinity"]
    /\ wc = [p \in Procs |-> NoWc]
    /\ repo = NoRepo

NextCache ==
    \/ \E p \in Procs, g \in Tags, r \in PyRevs : create(p, g, r)
    \/ \E p \in Procs : e_rlock_read(p)
    \/ \E p \in Procs : e_rlock_write(p)
    \/ \E p \in Procs : e_upgrade_read(p)
    \/ \E p \in Procs : e_upgrade_write(p)
    \/ \E p \in Procs : e_update(p)
    \/ \E p \in Procs : c_wlock_read(p)
    \/ \E p \in Procs : c_wlock_write(p)
    \/ \E p \in Procs : c_cp(p)
    \/ \E p \in Procs : c_wunlock_read(p)
    \/ \E p \in Procs : c_wunlock_write(p)
    \/ \E p \in Procs : l_update(p)
    \/ \E p \in Procs : e_exit_read(p)
    \/ \E p \in Procs : e_exit_write(p)
    \/ \E p \in Procs : n_wlock_read(p)
    \/ \E p \in Procs : n_wlock_write(p)
    \/ \E p \in Procs : n_checkout(p)
    \/ \E p \in Procs : x_wlock_read(p)
    \/ \E p \in Procs : x_wlock_write(p)
    \/ \E p \in Procs : x_cp(p)
    \/ \E p \in Procs : x_wunlock_read(p)
    \/ \E p \in Procs : x_wunlock_write(p)
    \/ \E p \in Procs : n_exit_read(p)
    \/ \E p \in Procs : n_exit_write(p)

SpecCache == InitCache /\ [][NextCache]_vars

\* ------------------------------------------- commands that fail partway
\* svn checkout exits non-zero after it has written part of the tree:
\* check_call raises CalledProcessError inside "with lcache.wlock()".
n_checkout_fail(p) ==
    /\ proc[p].pc = "n_checkout"
    /\ disk' = [disk EXCEPT ![cache_path("local", proc[p].tag)] = HeadRev]
    /\ depth' = [depth EXCEPT ![cache_path("local", proc[p].tag)] = "infinity"]
    /\ partial' = partial \cup {cache_path("local", proc[p].tag)}
    /\ proc' = [proc EXCEPT ![p] =
                  Raised([proc[p] EXCEPT !.fetches = proc[p].fetches + 1],
                         "CalledProcessError", "n_exit")]
    /\ UNCHANGED <<extern_dir, locks, wc>>
    /\ UNCHANGED <<lvars, repo>>

\* cp -ra of the external checkout exits non-zero after it has written
\* part of the tree into the local root.
c_cp_fail(p) ==
    /\ proc[p].pc = "c_cp"
    /\ disk' = [disk EXCEPT ![cache_path("local", proc[p].tag)] =
                               disk[cache_path("extern", proc[p].tag)]]
    /\ depth' = [depth EXCEPT ![cache_path("local", proc[p].tag)] =
                                 depth[cache_path("extern", proc[p].tag)]]
    /\ partial' = partial \cup {cache_path("local", proc[p].tag)}
    /\ proc' = [proc EXCEPT ![p] =
                  Raised(proc[p], "CalledProcessError", "c_wunlock")]
    /\ UNCHANGED <<extern_dir, locks, wc>>
    /\ UNCHANGED <<lvars, repo>>

\* cp -ra of the local checkout exits non-zero after it has written part
\* of the tree into the external root.
x_cp_fail(p) ==
    /\ proc[p].pc = "x_cp"
    /\ disk' = [disk EXCEPT ![cache_path("extern", proc[p].tag)] =
                               disk[cache_path("local", proc[p].tag)]]
    /\ depth' = [depth EXCEPT ![cache_path("extern", proc[p].tag)] =
                                 depth[cache_path("local", proc[p].tag)]]
    /\ partial' = partial \cup {cache_path("extern", proc[p].tag)}
    /\ proc' = [proc EXCEPT ![p] =
                  Raised(proc[p], "CalledProcessError", "x_wunlock")]
    /\ UNCHANGED <<extern_dir, locks, wc>>
    /\ UNCHANGED <<lvars, repo>>

\* ------------------------------------- one call per process, on one tag
\* The tag the calls are about.
TheTag == CHOOSE g \in Tags : TRUE

\* The first create call of a process.
once_create(p, r) ==
    /\ proc[p].calls = 0
    /\ proc[p].caller = "none"
    /\ create(p, TheTag, r)

\* ----------------------------------------------------- switch_checkout
\* os.listdir of the .svn directory of a checkout, with or without the
\* tmp directory that svn removes at times.
svn_listing(t) ==
    {"wc.db", "format", "pristine"} \cup (IF t THEN {"tmp"} ELSE {})

\* os.mkdir('.svn/tmp'): a real directory.
tmp_dir == [name |-> "tmp", kind |-> "dir", to |-> <<>>]

\* os.symlink(os.path.join(cache_svn, f), os.path.join('.svn', f))
symlink(path, f) == [name |-> f, kind |-> "link", to |-> path \o <<".svn", f>>]

\* A working directory whose .svn an earlier switch made from another
\* checkout, with a file svn added to it since.
OldWc ==
    [svn |-> "dir",
     entries |-> {tmp_dir, symlink(<<"old", TheTag>>, "wc.db"),
                  [name |-> "stale", kind |-> "file", to |-> <<>>]},
     rev |-> HeadRev, depth |-> "infinity", steps |-> <<>>]

\* The states of the checkout argument's directory before a switch.
PriorWcs == {NoWc, OldWc}

\* Variant: the old .svn is left in place.
rmtree_Keeps(w) == w

\* shutil.rmtree('.svn')
rmtree(w) == [w EXCEPT !.svn = "absent", !.entries = {}]

\* assert cache / assert lcache
assert_entry(e) == IF e = <<>> THEN "AssertionError" ELSE "ok"

\* The processes that have called a switch_checkout.
Switchers == {p \in Procs : proc[p].caller # "none"}

\* The working directory after one more statement of the switch.
Step(w, name) == [w EXCEPT !.steps = Append(w.steps, name)]

\* switch_checkout(ggit, tag, root, rev=rv) is called on a directory in
\* state prior: the lookup of the local entry and, without one, the
\* revision to use and the call of create.
h_call(p, rv, prior) ==
    /\ proc[p].pc = "idle"
    /\ proc[p].calls = 0
    /\ Switchers = {}
    /\ wc' = [wc EXCEPT ![p] = prior]
    /\ LET f == [proc[p] EXCEPT !.caller = "switch_checkout", !.srev = rv,
                                !.tag = TheTag]
       IN IF get_local_entry(TheTag) # <<>>
          THEN proc' = [proc EXCEPT ![p] = [f EXCEPT !.pc = "s_entry"]]
          ELSE /\ Calls(Procs) < MaxCalls
               /\ proc' = [proc EXCEPT ![p] =
                             create_frame(f, TheTag,
                                          IF rv = NoRev THEN svn_info(HeadRev)
                                          ELSE rv)]
    /\ UNCHANGED <<extern_dir, disk, locks, partial, depth>>
    /\ UNCHANGED <<lvars, repo>>

\* lcache = cache.get_local_entry(tag); assert lcache
h_lookup(p) ==
    /\ proc[p].pc = "h_lookup"
    /\ proc' = [proc EXCEPT ![p] =
                  IF assert_entry(get_local_entry(proc[p].tag)) = "ok"
                  THEN [proc[p] EXCEPT !.pc = "s_entry"]
                  ELSE Raised(proc[p], "AssertionError", "idle")]
    /\ UNCHANGED <<extern_dir, disk, locks, partial, depth, wc>>
    /\ UNCHANGED <<lvars, repo>>

\* Variant: the old .svn is removed before the entry is looked up.
s_call_Early(p, prior) ==
    /\ proc[p].pc = "idle"
    /\ proc[p].calls = 0
    /\ Switchers = {}
    /\ wc' = [wc EXCEPT ![p] = Step(rmtree(prior), "rmtree")]
    /\ proc' = [proc EXCEPT ![p] =
                  [proc[p] EXCEPT !.caller = "SvnCache.switch_checkout",
                                  !.tag = TheTag, !.pc = "s_entry"]]
    /\ UNCHANGED <<extern_dir, disk, locks, partial, depth>>
    /\ UNCHANGED <<lvars, repo>>

\* SvnCache.switch_checkout(tag, checkout) is called on a directory in
\* state prior.
s_call(p, prior) ==
    /\ proc[p].pc = "idle"
    /\ proc[p].calls = 0
    /\ Switchers = {}
    /\ wc' = [wc EXCEPT ![p] = prior]
    /\ proc' = [proc EXCEPT ![p] =
                  [proc[p] EXCEPT !.caller = "SvnCache.switch_checkout",
                                  !.tag = TheTag, !.pc = "s_entry"]]
    /\ UNCHANGED <<extern_dir, disk, locks, partial, depth>>
    /\ UNCHANGED <<lvars, repo>>

\* cache = self.get_local_entry(tag); assert cache
s_entry(p) ==
    /\ proc[p].pc = "s_entry"
    /\ LET e == get_local_entry(proc[p].tag)
       IN proc' = [proc EXCEPT ![p] =
                     IF assert_entry(e) = "ok"
                     THEN [proc[p] EXCEPT
                             !.pc = "s_rmtree",
                             !.cache = <<[revision |-> e[1],
                                          depth |-> depth[cache_path("local", proc[p].tag)]]>>]
                     ELSE Raised(proc[p], "AssertionError", "idle")]
    /\ UNCHANGED <<extern_dir, disk, locks, partial, depth, wc>>
    /\ UNCHANGED <<lvars, repo>>

\* if os.path.exists('.svn'): shutil.rmtree('.svn')
s_rmtree(p) ==
    /\ proc[p].pc = "s_rmtree"
    /\ wc' = [wc EXCEPT ![p] = IF wc[p].svn # "absent"
                               THEN Step(rmtree(wc[p]), "rmtree")
                               ELSE wc[p]]
    /\ proc' = [proc EXCEPT ![p].pc = "s_mkdir"]
    /\ UNCHANGED <<extern_dir, disk, locks, partial, depth>>
    /\ UNCHANGED <<lvars, repo>>

\* os.mkdir('.svn'); os.mkdir('.svn/tmp')
s_mkdir(p) ==
    /\ proc[p].pc = "s_mkdir"
    /\ wc' = [wc EXCEPT ![p] =
                Step([wc[p] EXCEPT !.svn = "dir",
                                   !.entries = wc[p].entries \cup {tmp_dir}],
                     "mkdir")]
    /\ proc' = [proc EXCEPT ![p].pc = "s_link"]
    /\ UNCHANGED <<extern_dir, disk, locks, partial, depth>>
    /\ UNCHANGED <<lvars, repo>>

\* The symlinks to every entry of the cache entry's .svn but tmp.
s_link(p) ==
    /\ proc[p].pc = "s_link"
    /\ \E t \in BOOLEAN :
          wc' = [wc EXCEPT ![p] =
                   Step([wc[p] EXCEPT
                           !.entries = wc[p].entries \cup
                               {symlink(cache_path("local", proc[p].tag), f) :
                                    f \in svn_listing(t) \ {"tmp"}}],
                        "link")]
    /\ proc' = [proc EXCEPT ![p].pc = "s_cleanup"]
    /\ UNCHANGED <<extern_dir, disk, locks, partial, depth>>
    /\ UNCHANGED <<lvars, repo>>

\* check_call('svn cleanup')
s_cleanup(p) ==
    /\ proc[p].pc = "s_cleanup"
    /\ wc' = [wc EXCEPT ![p] = Step(wc[p], "cleanup")]
    /\ proc' = [proc EXCEPT ![p].pc = "s_update"]
    /\ UNCHANGED <<extern_dir, disk, locks, partial, depth>>
    /\ UNCHANGED <<lvars, repo>>

\* svn update --force --accept working --set-depth=infinity -r rev, in
\* the working directory, whose metadata are the cache entry's.
s_update(p) ==
    /\ proc[p].pc = "s_update"
    /\ wc' = [wc EXCEPT ![p] =
                Step([wc[p] EXCEPT !.rev = proc[p].cache[1].revision.n,
                                   !.depth = "infinity"],
                     "update")]
    /\ depth' = [depth EXCEPT ![cache_path("local", proc[p].tag)] = "infinity"]
    /\ proc' = [proc EXCEPT ![p].pc = "s_revert"]
    /\ UNCHANGED <<extern_dir, disk, locks, partial>>
    /\ UNCHANGED <<lvars, repo>>

\* check_call('svn revert -R .'), and the return.
s_revert(p) ==
    /\ proc[p].pc = "s_revert"
    /\ wc' = [wc EXCEPT ![p] = Step(wc[p], "revert")]
    /\ proc' = [proc EXCEPT ![p] =
                  [proc[p] EXCEPT !.pc = "idle", !.res = "returned",
                                  !.cache = <<>>]]
    /\ UNCHANGED <<extern_dir, disk, locks, partial, depth>>
    /\ UNCHANGED <<lvars, repo>>

\* The roots before the first call: an empty local root and, when there is
\* an external root, possibly a checkout of the tag in it, at any revision
\* and depth.
InitOnce ==
    /\ table = <<>>
    /\ pc = [o \in Objs |-> "idle"]
    /\ op = [o \in Objs |-> "none"]
    /\ data = [o \in Objs |-> InitialRow]
    /\ result = [o \in Objs |-> "none"]
    /\ held = [o \in Objs |-> "none"]
    /\ upgraded = [o \in Objs |-> FALSE]
    /\ extern_dir \in BOOLEAN
    /\ disk \in [CachePaths -> {Absent} \cup Revs]
    /\ depth \in [CachePaths -> Depths]
    /\ \A c \in CachePaths :
          (c # cache_path("extern", TheTag) \/ ~ extern_dir) => disk[c] = Absent
    /\ \A c \in CachePaths : disk[c] = Absent => depth[c] = "infinity"
    /\ partial = {}
    /\ locks = [f \in LockFiles |-> <<>>]
    /\ proc = [p \in Procs |-> IdleFrame]
    /\ wc = [p \in Procs |-> NoWc]
    /\ repo = NoRepo

NextOnce ==
    \/ \E p \in Procs, r \in PyRevs : once_create(p, r)
    \/ \E p \in Procs : e_rlock_read(p)
    \/ \E p \in Procs : e_rlock_write(p)
    \/ \E p \in Procs : e_upgrade_read(p)
    \/ \E p \in Procs : e_upgrade_write(p)
    \/ \E p \in Procs : e_update(p)
    \/ \E p \in Procs : c_wlock_read(p)
    \/ \E p \in Procs : c_wlock_write(p)
    \/ \E p \in Procs : c_cp(p)
    \/ \E p \in Procs : c_cp_fail(p)
    \/ \E p \in Procs : c_wunlock_read(p)
    \/ \E p \in Procs : c_wunlock_write(p)
    \/ \E p \in Procs : l_update(p)
    \/ \E p \in Procs : e_exit_read(p)
    \/ \E p \in Procs : e_exit_write(p)
    \/ \E p \in Procs : n_wlock_read(p)
    \/ \E p \in Procs : n_wlock_write(p)
    \/ \E p \in Procs : n_checkout(p)
    \/ \E p \in Procs : n_checkout_fail(p)
    \/ \E p \in Procs : x_wlock_read(p)
    \/ \E p \in Procs : x_wlock_write(p)
    \/ \E p \in Procs : x_cp(p)
    \/ \E p \in Procs : x_cp_fail(p)
    \/ \E p \in Procs : x_wunlock_read(p)
    \/ \E p \in Procs : x_wunlock_write(p)
    \/ \E p \in Procs : n_exit_read(p)
    \/ \E p \in Procs : n_exit_write(p)

SpecOnce == InitOnce /\ [][NextOnce]_vars

\* ------------------------------------------------ cp -ra as it proceeds
\* cp -ra of the external checkout into the local root has made the
\* destination directory and part of its tree.
c_cp_begin(p) ==
    /\ proc[p].pc = "c_cp"
    /\ disk' = [disk EXCEPT ![cache_path("local", proc[p].tag)] =
                               disk[cache_path("extern", proc[p].tag)]]
    /\ depth' = [depth EXCEPT ![cache_path("local", proc[p].tag)] =
                                 depth[cache_path("extern", proc[p].tag)]]
    /\ partial' = partial \cup {cache_path("local", proc[p].tag)}
    /\ proc' = [proc EXCEPT ![p].pc = "c_cp_mid"]
    /\ UNCHANGED <<extern_dir, locks, wc>>
    /\ UNCHANGED <<lvars, repo>>

\* The cp has written the rest of the tree and exits; copy_to has its
\* new entry.
c_cp_end(p) ==
    /\ proc[p].pc = "c_cp_mid"
    /\ disk' = [disk EXCEPT ![cache_path("local", proc[p].tag)] =
                               disk[cache_path("extern", proc[p].tag)]]
    /\ depth' = [depth EXCEPT ![cache_path("local", proc[p].tag)] =
                                 depth[cache_path("extern", proc[p].tag)]]
    /\ partial' = cp_partial(partial, cache_path("extern", proc[p].tag),
                             cache_path("local", proc[p].tag))
    /\ proc' = [proc EXCEPT ![p] =
                  [proc[p] EXCEPT !.pc = "c_wunlock", !.lcache = proc[p].ecache]]
    /\ UNCHANGED <<extern_dir, locks, wc>>
    /\ UNCHANGED <<lvars, repo>>

\* cp -ra of the local checkout into the external root has made the
\* destination directory and part of its tree.
x_cp_begin(p) ==
    /\ proc[p].pc = "x_cp"
    /\ disk' = [disk EXCEPT ![cache_path("extern", proc[p].tag)] =
                               disk[cache_path("local", proc[p].tag)]]
    /\ depth' = [depth EXCEPT ![cache_path("extern", proc[p].tag)] =
                                 depth[cache_path("local", proc[p].tag)]]
    /\ partial' = partial \cup {cache_path("extern", proc[p].tag)}
    /\ proc' = [proc EXCEPT ![p].pc = "x_cp_mid"]
    /\ UNCHANGED <<extern_dir, locks, wc>>
    /\ UNCHANGED <<lvars, repo>>

\* The cp has written the rest of the tree and exits.
x_cp_end(p) ==
    /\ proc[p].pc = "x_cp_mid"
    /\ disk' = [disk EXCEPT ![cache_path("extern", proc[p].tag)] =
                               disk[cache_path("local", proc[p].tag)]]
    /\ depth' = [depth EXCEPT ![cache_path("extern", proc[p].tag)] =
                                 depth[cache_path("local", proc[p].tag)]]
    /\ partial' = cp_partial(partial, cache_path("local", proc[p].tag),
                             cache_path("extern", proc[p].tag))
    /\ proc' = [proc EXCEPT ![p].pc = "x_wunlock"]
    /\ UNCHANGED <<extern_dir, locks, wc>>
    /\ UNCHANGED <<lvars, repo>>

\* One create call per process on one tag, each cp -ra in two steps;
\* every command succeeds.
NextCopy ==
    \/ \E p \in Procs, r \in PyRevs : once_create(p, r)
    \/ \E p \in Procs : e_rlock_read(p)
    \/ \E p \in Procs : e_rlock_write(p)
    \/ \E p \in Procs : e_upgrade_read(p)
    \/ \E p \in Procs : e_upgrade_write(p)
    \/ \E p \in Procs : e_update(p)
    \/ \E p \in Procs : c_wlock_read(p)
    \/ \E p \in Procs : c_wlock_write(p)
    \/ \E p \in Procs : c_cp_begin(p)
    \/ \E p \in Procs : c_cp_end(p)
    \/ \E p \in Procs : c_wunlock_read(p)
    \/ \E p \in Procs : c_wunlock_write(p)
    \/ \E p \in Procs : l_update(p)
    \/ \E p \in Procs : e_exit_read(p)
    \/ \E p \in Procs : e_exit_write(p)
    \/ \E p \in Procs : n_wlock_read(p)
    \/ \E p \in Procs : n_wlock_write(p)
    \/ \E p \in Procs : n_checkout(p)
    \/ \E p \in Procs : x_wlock_read(p)
    \/ \E p \in Procs : x_wlock_write(p)
    \/ \E p \in Procs : x_cp_begin(p)
    \/ \E p \in Procs : x_cp_end(p)
    \/ \E p \in Procs : x_wunlock_read(p)
    \/ \E p \in Procs : x_wunlock_write(p)
    \/ \E p \in Procs : n_exit_read(p)
    \/ \E p \in Procs : n_exit_write(p)

SpecCopy == InitOnce /\ [][NextCopy]_vars

\* One switch of a working directory, by either entry point, next to the
\* other processes' calls of create; every command succeeds.
NextSwitch ==
    \/ \E p \in Procs, r \in PyRevs : once_create(p, r)
    \/ \E p \in Procs, rv \in PyRevs \cup {NoRev}, prior \in PriorWcs :
          h_call(p, rv, prior)
    \/ \E p \in Procs : h_lookup(p)
    \/ \E p \in Procs, prior \in PriorWcs : s_call(p, prior)
    \/ \E p \in Procs : s_entry(p)
    \/ \E p \in Procs : s_rmtree(p)
    \/ \E p \in Procs : s_mkdir(p)
    \/ \E p \in Procs : s_link(p)
    \/ \E p \in Procs : s_cleanup(p)
    \/ \E p \in Procs : s_update(p)
    \/ \E p \in Procs : s_revert(p)
    \/ \E p \in Procs : e_rlock_read(p)
    \/ \E p \in Procs : e_rlock_write(p)
    \/ \E p \in Procs : e_upgrade_read(p)
    \/ \E p \in Procs : e_upgrade_write(p)
    \/ \E p \in Procs : e_update(p)
    \/ \E p \in Procs : c_wlock_read(p)
    \/ \E p \in Procs : c_wlock_write(p)
    \/ \E p \in Procs : c_cp(p)
    \/ \E p \in Procs : c_wunlock_read(p)
    \/ \E p \in Procs : c_wunlock_write(p)
    \/ \E p \in Procs : l_update(p)
    \/ \E p \in Procs : e_exit_read(p)
    \/ \E p \in Procs : e_exit_write(p)
    \/ \E p \in Procs : n_wlock_read(p)
    \/ \E p \in Procs : n_wlock_write(p)
    \/ \E p \in Procs : n_checkout(p)
    \/ \E p \in Procs : x_wlock_read(p)
    \/ \E p \in Procs : x_wlock_write(p)
    \/ \E p \in Procs : x_cp(p)
    \/ \E p \in Procs : x_wunlock_read(p)
    \/ \E p \in Procs : x_wunlock_write(p)
    \/ \E p \in Procs : n_exit_read(p)
    \/ \E p \in Procs : n_exit_write(p)

SpecSwitch == InitOnce /\ [][NextSwitch]_vars

\* ------------------------------------------------------------- claims

\* ----------------------------------------------- ggit clone, switch, sync
\* The urls of the remotes of a ggit configuration, in order.
Configs ==
    {<<a>> : a \in Urls} \cup
    {c \in Urls \X Urls : c[1] # c[2]}

\* The repository to clone: its configuration branch and its refs.
InitGit ==
    /\ table = <<>>
    /\ pc = [o \in Objs |-> "idle"]
    /\ op = [o \in Objs |-> "none"]
    /\ data = [o \in Objs |-> InitialRow]
    /\ result = [o \in Objs |-> "none"]
    /\ held = [o \in Objs |-> "none"]
    /\ upgraded = [o \in Objs |-> FALSE]
    /\ extern_dir = FALSE
    /\ disk = [c \in CachePaths |-> Absent]
    /\ locks = [f \in LockFiles |-> <<>>]
    /\ proc = [p \in Procs |-> IdleFrame]
    /\ partial = {}
    /\ depth = [c \in CachePaths |-> "infinity"]
    /\ wc = [p \in Procs |-> NoWc]
    /\ \E c \in Configs, l \in [Refs -> Logs] :
          repo = [NoRepo EXCEPT !.config = c, !.logs = l]

\* Clone.run and in it Configure.run: the caches of the remotes are set
\* up, and the .svn of the default branch's url is switched in if that
\* branch has git-svn history.
Clone ==
    /\ ~ repo.cloned
    /\ LET r == [repo EXCEPT !.cloned = TRUE, !.op = "clone",
                             !.svn = setup_empty_svn(repo.svn, repo.config)]
           log_entry == latest_svn_commit(r, r.head)
       IN repo' = IF log_entry = NoUrl THEN [r EXCEPT !.res = "ok"]
                  ELSE switch_svn(r, log_entry)
    /\ UNCHANGED <<lvars, cvars>>

\* The user leaves an untracked file in the working directory.
Touch ==
    /\ repo.cloned
    /\ ~ repo.dirty
    /\ repo' = [repo EXCEPT !.dirty = TRUE, !.op = "touch", !.res = "ok"]
    /\ UNCHANGED <<lvars, cvars>>

\* git clean -xfd: untracked files and the excluded .svn are removed.
git_clean ==
    /\ repo.cloned
    /\ repo.dirty \/ repo.wc_url # NoUrl
    /\ repo' = [repo EXCEPT !.dirty = FALSE, !.wc_url = NoUrl,
                            !.op = "clean", !.res = "ok"]
    /\ UNCHANGED <<lvars, cvars>>

\* git checkout <hashish>
git_checkout(hashish) ==
    /\ repo.cloned
    /\ repo.head # hashish
    /\ repo' = [repo EXCEPT !.head = hashish, !.op = "checkout",
                            !.res = "ok"]
    /\ UNCHANGED <<lvars, cvars>>

\* Switch.run: ggit switch [--force] <hashish>
Switch_run(hashish, force) ==
    /\ repo.cloned
    /\ LET r == [repo EXCEPT !.op = "switch"]
           log_entry == latest_svn_commit(r, hashish)
       IN repo' =
            IF r.dirty /\ ~ force THEN [r EXCEPT !.res = "RepoIsDirty"]
            ELSE IF log_entry = NoUrl THEN [r EXCEPT !.res = "NonSvnCommit"]
            ELSE switch_svn([r EXCEPT !.head = hashish], log_entry)
    /\ UNCHANGED <<lvars, cvars>>

\* Sync.run: ggit sync [--force]
Sync_run(force) ==
    /\ repo.cloned
    /\ LET r == [repo EXCEPT !.op = "sync"]
           log_entry == latest_svn_commit(r, r.head)
       IN repo' =
            IF log_entry = NoUrl THEN [r EXCEPT !.res = "NonSvnCommit"]
            ELSE IF r.dirty /\ ~ force THEN [r EXCEPT !.res = "RepoIsDirty"]
            ELSE switch_svn(r, log_entry)
    /\ UNCHANGED <<lvars, cvars>>

NextGit ==
    \/ Clone
    \/ Touch
    \/ git_clean
    \/ \E h \in Refs : git_checkout(h)
    \/ \E h \in Refs, force \in BOOLEAN : Switch_run(h, force)
    \/ \E force \in BOOLEAN : Sync_run(force)

SpecGit == InitGit /\ [][NextGit]_vars

\* ------------------------------------------------- holders that terminate
\* The process of object o has terminated.
Dead(o) == result[o] = "terminated"

\* Process p terminates between two calls while one of its lock objects
\* holds a lock: nothing is written to the lock file.
Die(p) ==
    /\ \A o \in Objs : getpid(o) = p => (pc[o] = "idle" /\ ~ Dead(o))
    /\ \E o \in Objs : getpid(o) = p /\ held[o] # "none"
    /\ result' = [o \in Objs |->
                    IF getpid(o) = p THEN "terminated" ELSE result[o]]
    /\ UNCHANGED <<table, pc, op, data, held, upgraded>>
    /\ UNCHANGED <<cvars, repo>>

\* A call of method m on object o of a process that is alive.
LiveBegin(o, m) ==
    /\ ~ Dead(o)
    /\ Begin(o, m)

NextDead ==
    \/ \E o \in Objs, m \in Methods : LiveBegin(o, m)
    \/ \E o \in Objs : Write(o)
    \/ \E p \in Procs : Die(p)

SpecDead == Init /\ [][NextDead]_vars

\* Object o holds the writer lock: its WriterLock.lock() or upgrade() has
\* returned and it has not unlocked since.
HoldsWriter(o) == held[o] = "writer"

\* Object o holds a reader lock: its ReaderLock.lock() has returned and it
\* has neither unlocked nor upgraded since.
HoldsReader(o) == held[o] = "reader"

\* C1: no state has one process holding the writer lock while another
\* process holds a reader lock or the writer lock.
C1_MutualExclusion ==
    \A o, p \in Objs :
        (getpid(o) # getpid(p) /\ HoldsWriter(o)) => held[p] = "none"

\* C2: the read and the write of one operation are one atomic transaction:
\* while an operation is between its read and its own write, the row is not
\* changed by anybody else.
C2_ReadWriteAtomic ==
    [][\A o \in Objs : (pc[o] = "write" /\ pc'[o] = "write") => table' = table]_vars

\* C3: in every state of the lock record, a non-empty writer field implies
\* an empty readers field.
C3_WriterExcludesReaders ==
    table # <<>> => (table[1].writer # <<>> => table[1].readers = <<>>)

\* C3 witness: a writer is installed in the record while the caller of
\* another process was granted a reader lock by an interleaved lock().
C3_Witness ==
    /\ table # <<>>
    /\ table[1].writer # <<>>
    /\ \E o, p \in Objs : getpid(o) # getpid(p) /\ HoldsWriter(o) /\ HoldsReader(p)

\* C4: while an upgrade is between its removal of the holder from readers
\* and its installation as writer, no other object's ReaderLock.lock() or
\* WriterLock.lock() succeeds, and the record shows the upgrading holder in
\* readers or in writer.
C4_UpgradeNoWindow ==
    [][\A o \in Objs :
          (op[o] = "upgrade" /\ pc[o] = "write") =>
              /\ \A p \in Objs \ {o} :
                    ~ (op[p] \in {"rlock", "wlock"} /\ Write(p))
              /\ \/ In(lockid(o), table[1].readers)
                 \/ table[1].writer = <<lockid(o)>>]_vars

\* C5: an upgrade() that reads a row with its caller among the readers and
\* another reader present, or with a writer set, fails with
\* LockAcquireException, and a failing upgrade() leaves the row as it was.
C5_UpgradeConflict ==
    [][\A o \in Objs :
          Begin(o, "upgrade") =>
              LET d == select_data(table)
                  id == lockid(o)
              IN /\ ((In(id, d.readers) /\ Replace(d.readers, id) # <<>>)
                        \/ d.writer # <<>>)
                     => (pc'[o] = "idle" /\ result'[o] = "LockAcquireException")
                 /\ pc'[o] = "idle" =>
                        (table' = table /\ result'[o] # "ok")]_vars

\* C5 witness: an upgrade() has failed with LockAcquireException while
\* another reader is in the record, and its caller is still in readers.
C5_Witness ==
    \E o \in Objs :
        /\ op[o] = "upgrade" /\ pc[o] = "idle"
        /\ result[o] = "LockAcquireException"
        /\ HoldsReader(o)
        /\ In(lockid(o), table[1].readers)
        /\ Replace(table[1].readers, lockid(o)) # <<>>
        /\ table[1].writer = <<>>

\* C6: two distinct lock objects that operate on the lock file never have
\* the same holder id.
C6_UniqueHolderId ==
    \A g, h \in Objs :
        (g # h /\ op[g] # "none" /\ op[h] # "none") => lockid(g) # lockid(h)

C8_WriterLock ==
    [][\A o \in Objs :
          /\ Begin(o, "wlock") =>
                LET d == select_data(table')
                IN /\ (pc'[o] = "write") <=> (d.writer = <<>> /\ d.readers = <<>>)
                   /\ pc'[o] = "idle" =>
                         /\ result'[o] = "LockAcquireException"
                         /\ table' = table
          /\ (op[o] = "wlock" /\ Write(o)) =>
                /\ table'[1].writer = <<lockid(o)>>
                /\ table'[1].readers = <<>>
                /\ HoldsWriter(o)']_vars

\* C8 witness: a WriterLock.lock() has failed with LockAcquireException
\* against a held reader lock, and the reader is still in the record.
C8_Witness ==
    \E o, p \in Objs :
        /\ op[o] = "wlock" /\ pc[o] = "idle"
        /\ result[o] = "LockAcquireException"
        /\ HoldsReader(p)
        /\ table[1].readers = <<lockid(p)>>
        /\ table[1].writer = <<>>

\* A method run to its end on a row with nothing interleaved.
Run(m, row, id) ==
    IF Check(m, row, id) = "ok" THEN write_data(NewData(m, row, id))[1] ELSE row

\* C9: from every record a holder can lock, lock() followed by unlock() by
\* that single holder gives back the readers and writer of before, without
\* the holder in readers, and the holder's next lock() succeeds; and every
\* unlock() that commits leaves a row without the holder that the holder
\* can lock again.
C9_LockUnlockRoundTrip ==
    /\ [](table # <<>> =>
            \A o \in Objs :
                LET id == lockid(o)
                    r0 == table[1]
                    r1 == Run("rlock", r0, id)
                    r2 == Run("runlock", r1, id)
                IN Check("rlock", r0, id) = "ok" =>
                      /\ Check("runlock", r1, id) = "ok"
                      /\ r2.readers = r0.readers
                      /\ r2.writer = r0.writer
                      /\ ~ In(id, r2.readers)
                      /\ Check("rlock", r2, id) = "ok")
    /\ [][\A o \in Objs :
             (op[o] = "runlock" /\ Write(o)) =>
                 /\ ~ In(lockid(o), table'[1].readers)
                 /\ Check("rlock", table'[1], lockid(o)) = "ok"]_vars

\* C9 witness: a holder has locked, unlocked and locked again: it holds a
\* reader lock taken at the third write of the record.
C9_Witness ==
    \E o \in Objs :
        /\ op[o] = "rlock" /\ result[o] = "ok" /\ pc[o] = "idle"
        /\ table[1] = [readers |-> <<lockid(o)>>, writer |-> <<>>, tid |-> 3]

\* C10: when the writer lock returned by a successful upgrade() is
\* unlocked, the record is left with readers empty and writer empty, and a
\* ReaderLock.lock() by any holder on that record succeeds.
C10_UnlockAfterUpgrade ==
    [][\A o \in Objs :
          (upgraded[o] /\ op[o] = "wunlock" /\ Write(o)) =>
              /\ table'[1].readers = <<>>
              /\ table'[1].writer = <<>>
              /\ \A f \in Objs : Check("rlock", table'[1], lockid(f)) = "ok"]_vars

\* C10 witness: the writer lock of an upgraded reader has been unlocked.
C10_Witness ==
    \E o \in Objs :
        /\ upgraded[o] /\ op[o] = "wunlock"
        /\ result[o] = "ok" /\ pc[o] = "idle"
        /\ table[1].writer = <<>> /\ table[1].readers = <<>>

\* C11: the tid of the record never decreases, and every write of the
\* record that commits leaves tid one above the tid of before.
C11_TidMonotonic ==
    [][table # <<>> =>
          /\ table'[1].tid >= table[1].tid
          /\ \A o \in Objs : Write(o) => table'[1].tid = table[1].tid + 1]_vars

\* The ids of s other than id, in their order.
Others(s, id) == SelectSeq(s, LAMBDA x : x # id)

\* C12: the initialization at the head of every lock operation creates
\* the row (readers empty, writer empty, tid 0) when the table has no row
\* and leaves an existing row as it is, whatever locks it shows; running
\* it twice is running it once; the table never has more than one row,
\* and has exactly one once any operation has been called.
C12_InitializeIdempotent ==
    /\ [](/\ Len(table) <= 1
          /\ (\E o \in Objs : op[o] # "none") => Len(table) = 1
          /\ initialize_database(initialize_database(table))
                = initialize_database(table))
    /\ [][\A o \in Objs, m \in Methods :
             Begin(o, m) =>
                 IF table = <<>>
                 THEN table' = <<[readers |-> <<>>, writer |-> <<>>, tid |-> 0]>>
                 ELSE table' = table]_vars

\* C12 witness: an operation has run its initialization on a record that
\* showed a reader lock, which the record still shows: a WriterLock.lock()
\* has been refused because of the reader.
C12_Witness ==
    \E o, f \in Objs :
        /\ held[o] = "reader" /\ pc[o] = "idle"
        /\ table # <<>> /\ table[1].readers = <<lockid(o)>>
        /\ table[1].tid > 0
        /\ op[f] = "wlock" /\ result[f] = "LockAcquireException"

Returns(p) == proc[p].pc # "idle" /\ proc'[p].pc = "idle"

\* No process has called create but p.
Alone(p) == \A q \in Procs \ {p} : proc[q].calls = 0

\* p is in its first create call and no other process has called create:
\* the call started from the roots as they were on first use, and nothing
\* contends with it.
First(p) == proc[p].calls = 1 /\ Alone(p)

\* C14: a lock taken for the entry of one tag never makes an operation on
\* the entry of another tag fail: a first create call meets no
\* LockAcquireException unless another process has called create for the
\* same tag.
C14_TagsDoNotShareLock ==
    \A p \in Procs :
        (/\ proc[p].calls = 1
         /\ \A q \in Procs \ {p} : proc[q].calls = 0 \/ proc[q].tag # proc[p].tag)
        => /\ proc[p].exc # "LockAcquireException"
           /\ proc[p].res # "LockAcquireException"

\* C15: a create(tag, rev) that found neither a local nor an external
\* entry for the tag ends with a local entry at revision rev on disk.
C15_NewEntryAtRev ==
    [][\A p \in Procs :
          (Returns(p) /\ First(p) /\ proc[p].new) =>
              disk'[cache_path("local", proc[p].tag)] = proc[p].rev.n]_vars

\* C16: a create(tag, rev2) that found an external entry at an older
\* revision rev1 < rev2, without contention, ends with the external entry
\* and the local entry both at rev2 on disk.
C16_OlderExternUpdated ==
    [][\A p \in Procs :
          (/\ Returns(p) /\ First(p)
           /\ proc[p].ecache # <<>>
           /\ proc[p].ecache[1].n < proc[p].rev.n) =>
              /\ disk'[cache_path("extern", proc[p].tag)] = proc[p].rev.n
              /\ disk'[cache_path("local", proc[p].tag)] = proc[p].rev.n]_vars

\* C17: a create(tag, rev) that found the local root empty and an external
\* entry already at rev ends having run no checkout and no update, with
\* the external entry as it was and a local entry at rev.
C17_FreshExternCopied ==
    [][\A p \in Procs :
          (/\ Returns(p) /\ First(p)
           /\ proc[p].ecache # <<>>
           /\ proc[p].ecache[1].n = proc[p].rev.n) =>
              /\ proc'[p].fetches = 0
              /\ disk'[cache_path("extern", proc[p].tag)] = proc[p].ecache[1].n
              /\ disk'[cache_path("local", proc[p].tag)] = proc[p].rev.n]_vars

\* C18: a create(tag, rev) that directly follows a returned create with
\* the same tag and rev, no other process calling, runs no checkout and no
\* update and leaves the local entry at the revision it had.
C18_CreateIdempotent ==
    [][\A p \in Procs :
          (Returns(p) /\ Alone(p) /\ proc[p].again) =>
              /\ proc'[p].fetches = 0
              /\ proc[p].lcache # <<>>
              /\ disk'[cache_path("local", proc[p].tag)] = proc[p].lcache[1].n]_vars

\* C19: no create call runs more than one checkout or update command.
C19_AtMostOneFetch ==
    \A p \in Procs : proc[p].fetches <= 1

\* C20: when every create call made has returned and the calls were made
\* by one process, every tag with both an external and a local entry has
\* its external entry at a revision not below the local entry's, and the
\* tag of the last call has it not below the revision that call asked for.
C20_ExternAtLeastAsFresh ==
    \A p \in Procs :
        (/\ extern_dir
         /\ proc[p].pc = "idle" /\ proc[p].calls > 0 /\ proc[p].res = "returned"
         /\ Alone(p)) =>
            /\ \A g \in Tags :
                  (/\ disk[cache_path("extern", g)] # Absent
                   /\ disk[cache_path("local", g)] # Absent) =>
                      disk[cache_path("extern", g)] >= disk[cache_path("local", g)]
            /\ (/\ disk[cache_path("extern", proc[p].tag)] # Absent
                /\ disk[cache_path("local", proc[p].tag)] # Absent) =>
                   disk[cache_path("extern", proc[p].tag)] >= proc[p].rev.n

\* C21: in create the external entry is taken to the update exactly when
\* the revision number it had on disk at the lookup is below the
\* requested revision number.
C21_UpdateIffOlder ==
    [][\A p \in Procs :
          e_rlock_write(p) =>
              (proc'[p].pc = "e_upgrade"
                  <=> proc[p].ecache[1].n < proc[p].rev.n)]_vars

\* The files of a cache root: its checkouts, whole or half-written.
trees == <<disk, partial, depth>>

\* C22: every cp between the roots, whole or failing partway, runs while
\* the copier holds the writer lock of the destination root by a
\* WriterLock.lock() that returned; a refused lock leaves the trees as
\* they are and leaves the copy, and the call then changes no tree.
C22_CopyUnderWriterLock ==
    [][\A p \in Procs :
          /\ (c_cp(p) \/ c_cp_fail(p)) => "local" \in proc[p].wheld
          /\ (x_cp(p) \/ x_cp_fail(p)) => "extern" \in proc[p].wheld
          /\ (c_wlock_read(p) \/ x_wlock_read(p)) =>
                /\ UNCHANGED trees
                /\ proc'[p].exc # "none" => proc'[p].pc \in {"e_exit", "n_exit"}
          /\ (/\ proc[p].pc \in {"e_exit", "e_exit_w", "n_exit", "n_exit_w"}
              /\ proc[p].exc = "LockAcquireException"
              /\ proc'[p] # proc[p]) => UNCHANGED trees]_vars

\* C22 witness: a process has copied the external entry into the local
\* root under the local writer lock, while the copy of another process
\* has been refused that lock and has written nothing.
C22_Witness ==
    \E p, q \in Procs :
        /\ proc[p].pc = "c_wunlock" /\ proc[p].exc = "none"
        /\ "local" \in proc[p].wheld
        /\ disk[cache_path("local", proc[p].tag)] # Absent
        /\ proc[q].pc = "e_exit" /\ proc[q].exc = "LockAcquireException"
        /\ ~ RevLt(proc[q].ecache[1], proc[q].rev)
        /\ proc[q].lcache = <<>>

\* C23: the update of the local copy to the requested revision runs while
\* the caller holds the writer lock of the local root.
C23_UpdateUnderCopyLock ==
    [][\A p \in Procs : l_update(p) => "local" \in proc[p].wheld]_vars

\* C24: after a create that failed in a copy or a checkout, no lookup
\* returns an entry for a half-written directory.
C24_NoHalfWrittenEntry ==
    \A p \in Procs :
        (proc[p].pc = "idle" /\ proc[p].res = "CalledProcessError") =>
            \A t \in Tiers :
                cache_path(t, proc[p].tag) \in partial =>
                    get_entry(disk, t, proc[p].tag) = <<>>

Linked ==
    {p \in Procs :
        \/ proc[p].pc \in {"s_cleanup", "s_update", "s_revert"}
        \/ /\ proc[p].pc = "idle"
           /\ proc[p].caller # "none"
           /\ proc[p].res = "returned"}

C27_NoEntryAborts ==
    [][\A p \in Procs :
          (s_entry(p) /\ get_local_entry(proc[p].tag) = <<>>) =>
              /\ proc'[p].pc = "idle"
              /\ proc'[p].res = "AssertionError"
              /\ wc[p] \in PriorWcs
              /\ wc'[p] = wc[p]
              /\ trees' = trees
              /\ locks' = locks]_vars

\* C27 witness: a direct switch on a directory with metadata has ended
\* with an AssertionError while the tag has no local entry.
C27_Witness ==
    \E p \in Procs :
        /\ proc[p].pc = "idle"
        /\ proc[p].caller = "SvnCache.switch_checkout"
        /\ proc[p].res = "AssertionError"
        /\ get_local_entry(TheTag) = <<>>
        /\ wc[p] = OldWc

\* ---------------------------------------------------------------- C28
\* The statements of a switch on a directory with earlier metadata, and
\* on one without.
SwitchOrder ==
    {<<"rmtree", "mkdir", "link", "cleanup", "update", "revert">>,
     <<"mkdir", "link", "cleanup", "update", "revert">>}

\* C28: a switch runs remove, mkdir, link, cleanup, update, revert in
\* that order, revert last, and leaves the working copy at the cache
\* entry's revision and at the cache entry's depth.
C28_OrderRevisionDepth ==
    [][\A p \in Procs :
          s_revert(p) =>
              /\ wc'[p].steps \in SwitchOrder
              /\ wc'[p].rev = proc[p].cache[1].revision.n
              /\ wc'[p].depth = proc[p].cache[1].depth]_vars

\* ---------------------------------------------------------------- C29
\* The steps of process p that run get_local_entry or get_extern_entry.
Lookup(p) ==
    \/ \E r \in PyRevs : once_create(p, r)
    \/ \E rv \in PyRevs \cup {NoRev}, prior \in PriorWcs : h_call(p, rv, prior)
    \/ h_lookup(p)
    \/ s_entry(p)

C30_GivenRevWins ==
    [][\A p \in Procs :
          (s_revert(p) /\ proc[p].caller = "switch_checkout") =>
              IF proc[p].srev # NoRev
              THEN wc'[p].rev = proc[p].srev.n
              ELSE \/ wc'[p].rev = proc[p].cache[1].revision.n
                   \/ wc'[p].rev = HeadRev]_vars

\* ---------------------------------------------------------------- C31
\* C31 as stated: after ggit switch <ref>, and after git checkout
\* <ref> followed by ggit sync, have completed in a clone, the svn url
\* of the working directory's metadata is the url in the latest
\* git-svn-id line reachable from the ref.
C31_MetadataOfRefUrl ==
    (repo.op \in {"switch", "sync"} /\ repo.res = "ok") =>
        repo.wc_url = latest_svn_commit(repo, repo.head)

\* C31, amended: after a completed ggit switch or ggit sync the svn
\* metadata of the working directory is the cache kept for the url of
\* the latest git-svn-id line reachable from the ref, urls taken
\* without their protocol: its host and path are the target branch's.
C31_MetadataOfRefPath ==
    (repo.op \in {"switch", "sync"} /\ repo.res = "ok") =>
        /\ latest_svn_commit(repo, repo.head) # NoUrl
        /\ repo.wc_url = repo.svn[url_to_svn_cache(
                                      latest_svn_commit(repo, repo.head))]
        /\ url_to_svn_cache(repo.wc_url) =
               url_to_svn_cache(latest_svn_commit(repo, repo.head))

\* C31 witness: a sync after a checkout of the other branch, whose url
\* differs in its path from the first branch's, has completed.
C31_Witness ==
    /\ repo.op = "sync"
    /\ repo.res = "ok"
    /\ repo.head = "origin/svn/aptrunk"
    /\ latest_svn_commit(repo, "origin/master") # NoUrl
    /\ url_to_svn_cache(latest_svn_commit(repo, "origin/master")) #
           url_to_svn_cache(repo.wc_url)

\* ---------------------------------------------------------------- C32
\* The id of process p is in the readers or the writer of the record of
\* lock file f.
InRecord(p, f) ==
    /\ locks[f] # <<>>
    /\ In(p, locks[f][1].readers) \/ In(p, locks[f][1].writer)

\* C32: once create has returned or raised, on every path, the id of
\* the calling process is in neither readers nor writer of the local and
\* the external lock record.
C32_NoLockLeftBehind ==
    \A p \in Procs :
        (proc[p].pc = "idle" /\ proc[p].calls > 0) =>
            \A f \in LockFiles : ~ InRecord(p, f)

\* ---------------------------------------------------------------- C33
\* C33: a create call of a process that starts holding no lock and runs
\* with no other process calling create never ends with a failed
\* assertion of the lock methods.
C33_NoAssertionFails ==
    \A p \in Procs :
        (First(p) /\ proc[p].pc = "idle") => proc[p].res # "AssertionError"

\* ---------------------------------------------------------------- C34
\* C34: under any interleaving of create calls for one tag the revision
\* of the external entry on disk never decreases.
C34_ExternNeverOlder ==
    [][\A g \in Tags :
          disk[cache_path("extern", g)] # Absent =>
              disk'[cache_path("extern", g)] >= disk[cache_path("extern", g)]]_vars

\* ---------------------------------------------------------------- C35
\* C35: when processes call create for one tag with no local and no
\* external entry, the first-time checkout runs at most once for the
\* local path: no process checks out into a path where a checkout has
\* already put the entry.
C35_OneFirstCheckout ==
    [][\A p \in Procs :
          n_checkout(p) =>
              disk[cache_path("local", proc[p].tag)] = Absent]_vars

\* ---------------------------------------------------------------- C36
\* C36: an entry object agrees with the disk across its own operations:
\* after update(r) its revision attribute is r, and the entry returned by
\* copy_to has the on-disk revision of the directory copied.
C36_EntryMatchesDisk ==
    [][\A p \in Procs :
          /\ e_update(p) => proc'[p].ecache[1].n = proc[p].rev.n
          /\ c_cp(p) =>
                 proc'[p].lcache[1].n =
                     disk'[cache_path("local", proc[p].tag)]]_vars

\* ---------------------------------------------------------------- C37
\* The cache paths into which some process's cp -ra is running.
Copying ==
    {cache_path("local", proc[p].tag) :
         p \in {q \in Procs : proc[q].pc = "c_cp_mid"}} \cup
    {cache_path("extern", proc[p].tag) :
         p \in {q \in Procs : proc[q].pc = "x_cp_mid"}}

\* C37: while a process is copying an entry into a root, no lookup
\* returns an entry for the directory being written.
C37_CopyInvisible ==
    \A g \in Tags :
        /\ cache_path("local", g) \in Copying => get_local_entry(g) = <<>>
        /\ cache_path("extern", g) \in Copying => get_extern_entry(g) = <<>>

\* ---------------------------------------------------------------- C38
\* C38: a create that returns with an external root configured leaves an
\* external entry for the tag; when there was none at its lookup, the
\* local entry, fresh or found, is copied to the external root under the
\* external writer lock taken by the call, and the seeded entry has the
\* local entry's revision.
C38_ExternSeeded ==
    [][\A p \in Procs :
          /\ x_cp(p) =>
                 /\ proc[p].ecache = <<>>
                 /\ "extern" \in proc[p].wheld
                 /\ disk'[cache_path("extern", proc[p].tag)] # Absent
                 /\ disk'[cache_path("extern", proc[p].tag)] =
                        disk'[cache_path("local", proc[p].tag)]
          /\ (Returns(p) /\ proc'[p].res = "returned" /\ extern_dir) =>
                 disk'[cache_path("extern", proc[p].tag)] # Absent]_vars

\* C38 witness: a create that found a local entry and no external one
\* has copied it to the external root and still holds the writer lock.
C38_Witness ==
    \E p \in Procs :
        /\ proc[p].pc = "x_wunlock"
        /\ proc[p].exc = "none"
        /\ ~ proc[p].new
        /\ proc[p].ecache = <<>>
        /\ "extern" \in proc[p].wheld
        /\ disk[cache_path("extern", proc[p].tag)] # Absent
        /\ disk[cache_path("extern", proc[p].tag)] =
               disk[cache_path("local", proc[p].tag)]

\* ---------------------------------------------------------------- C39
\* C39: the id of a holder that terminated without unlock() stays in the
\* record in every later state, no step of another process removes it,
\* and while it is there every WriterLock.lock() fails with
\* LockAcquireException, and every ReaderLock.lock() too if the dead
\* holder is the writer.
C39_StaleRowsStay ==
    [][\A o \in Objs :
          (Dead(o) /\ table # <<>>) =>
              /\ In(lockid(o), table[1].readers) =>
                     In(lockid(o), table'[1].readers)
              /\ In(lockid(o), table[1].writer) =>
                     In(lockid(o), table'[1].writer)]_vars

\* ---------------------------------------------------------------------
\* C40: in every reachable state of the lock record each holder id occurs
\* at most once in readers, and ReaderLock.unlock() by one holder removes
\* only that holder's id: the row it hands to _write_data is the row it
\* read with every other reader's id kept in place and in order, and that
\* row is what _write_data stores.
Occurrences(id, s) == Cardinality({i \in DOMAIN s : s[i] = id})

====
